---- MODULE Spec2Model ----
(***************************************************************************)
(* Model of the chat server of src/main.rs: the four connection handlers   *)
(* (on_open, on_text, on_binary, on_close), the shared UserNames registry  *)
(* behind its RwLock, the room "main" and the ChatMessage table.           *)
(*                                                                         *)
(* Every handler invocation is a task (one entry of `tasks`).  A task      *)
(* advances one await point at a time, and tasks of the same or of         *)
(* different connections interleave freely.  Strings that the code         *)
(* inspects character by character (event.data, names, ids) are sequences  *)
(* of one-character strings; formatted payloads are strings.               *)
(***************************************************************************)
EXTENDS Naturals, Sequences, FiniteSets, TLC

\* ------------------------------------------------------------------ bounds
\* Number of transport events that follow the connects in one behaviour
\* (text frames, binary frames and disconnects).
MaxEvents == 2
\* Number of calls to the transport or the database that fail in one behaviour.
MaxFailures == 1
\* Number of handler invocations that may be in flight at the same time.
MaxActive == 2

\* ------------------------------------------------------------------ inputs
\* Connection handles; handle.id() is the number itself.
Conns == {1, 2}

\* Text frames a client may send: empty, whitespace only, plain, padded.
Texts == { <<>>, <<" ">>, <<"a">>, <<" ", "b", " ">> }

\* Binary frames a client may send (only the length is read).
Payloads == { <<>>, <<7, 7>> }

\* Rows the ChatMessage table may hold at start-up: chat.sqlite outlives
\* the process, create_tables() only registers the table.
StoredRows == << [text |-> <<"x">>, sender |-> <<"a">>],
                 [text |-> <<"y">>, sender |-> <<"b">>] >>
InitialHistories == { <<>>, StoredRows }

VARIABLES
    names,    \* UserNames: HashMap<String, String>, user id -> display name
    lock,     \* the RwLock around names: [readers: set of tasks, writer: task or 0]
    room,     \* connections joined to room "main"
    db,       \* rows of the ChatMessage table, in insertion order
    conn,     \* per connection: "new", "open" or "closed"
    tasks,    \* handler invocations, in the order they were started, each
              \* with its locals and the outbound send calls it has made
    failures  \* number of transport and database calls that failed so far

vars == <<names, lock, room, db, conn, tasks, failures>>

\* ----------------------------------------------------------- pure helpers
Whitespace == {" "}

\* str::trim(): drop leading and trailing whitespace.
RECURSIVE TrimStart(_)
TrimStart(s) ==
    IF s # <<>> /\ Head(s) \in Whitespace THEN TrimStart(Tail(s)) ELSE s

RECURSIVE TrimEnd(_)
TrimEnd(s) ==
    IF s # <<>> /\ s[Len(s)] \in Whitespace
    THEN TrimEnd(SubSeq(s, 1, Len(s) - 1)) ELSE s

Trim(s) == TrimEnd(TrimStart(s))

\* The characters of a string value, written out as a string.
RECURSIVE Str(_)
Str(s) == IF s = <<>> THEN "" ELSE Head(s) \o Str(Tail(s))

\* handle.id().to_string()
UserId(c) == << ToString(c) >>

\* struct Message { message_type, data }
Message(type, data) == [message_type |-> type, data |-> data]

\* serde_json::to_string(&message): a JSON object with both fields.
ToJson(m) == [format |-> "json", message_type |-> m.message_type, data |-> m.data]

\* A payload sent as it is, outside any envelope.
RawText(s) == [format |-> "text", message_type |-> "", data |-> s]

\* format!("{}: {}", sender, text)
FmtLine(sender, text) == Str(sender) \o ": " \o Str(text)

\* format!("Me: {}", event.data)
FmtEcho(text) == "Me: " \o Str(text)

\* format!("Welcome, {}! You can start chatting now.", name)
FmtWelcome(name) == "Welcome, " \o Str(name) \o "! You can start chatting now."

\* format!("{} joined the chat!", name)
FmtJoined(name) == Str(name) \o " joined the chat!"

\* format!("{} sent binary data ({} bytes)", name, event.data.len())
FmtBinary(name, data) ==
    Str(name) \o " sent binary data (" \o ToString(Len(data)) \o " bytes)"

NamePrompt == "Welcome! Please enter your name:"
EmptyNamePrompt == "Name cannot be empty. Please enter your name:"

\* The lookup with an empty default.
LookupNameOrEmpty(c) ==
    IF UserId(c) \in DOMAIN names THEN names[UserId(c)] ELSE <<>>

\* names.get(&user_id).cloned().unwrap_or_else(|| user_id.clone())
LookupName(c) ==
    IF UserId(c) \in DOMAIN names THEN names[UserId(c)] ELSE UserId(c)

\* The registry never consulted.
\* Every connection taken to have a name.
HasNameAlways(c) == TRUE

HasNameNever(c) == FALSE

\* names.contains_key(&user_id)
HasName(c) == UserId(c) \in DOMAIN names

\* The emptiness test left out.
IsEmptyNever(name) == FALSE

\* name.is_empty()
IsEmpty(name) == name = <<>>

\* Key and value the wrong way round.
InsertNameSwapped(c, name) ==
    [k \in DOMAIN names \cup {name} |->
        IF k = name THEN UserId(c) ELSE names[k]]

\* A name already in use refused.
InsertNameUnique(c, name) ==
    IF \E k \in DOMAIN names : names[k] = name
    THEN names
    ELSE [k \in DOMAIN names \cup {UserId(c)} |->
             IF k = UserId(c) THEN name ELSE names[k]]

\* names.insert(user_id, name)
InsertName(c, name) ==
    [k \in DOMAIN names \cup {UserId(c)} |->
        IF k = UserId(c) THEN name ELSE names[k]]

\* The caller left in the recipients.
TextRecipientsAll(c) == room

\* handle.to(room).text(..): every member of the room but the caller.
TextRecipients(c) == room \ {c}

\* handle.to(room).emit_text(..): every member of the room, the caller too.
EmitTextRecipients(c) == room

\* ------------------------------------------------------------- task state
NoTask == 0
Active(e) == tasks[e].pc \notin {"done", "panicked"}
NumActive == Cardinality({e \in DOMAIN tasks : Active(e)})

\* A handler invocation at its start.
NewTask(c, kind, data, pc) ==
    [conn |-> c, kind |-> kind, data |-> data, pc |-> pc,
     has_name |-> FALSE, name |-> <<>>, messages |-> <<>>, sent |-> <<>>]

\* The error dropped instead of unwrapped.
UnwrapIgnored(ok, pc) == pc

\* Result::unwrap(): go on at pc, or panic on Err.
Unwrap(ok, pc) == IF ok THEN pc ELSE "panicked"

NumEvents ==
    Cardinality({e \in DOMAIN tasks : tasks[e].kind # "open"})
    + Cardinality({c \in Conns : conn[c] = "closed"})

CanStart == NumActive < MaxActive

\* The result of one call to the transport or the database: Ok or Err.
Outcome(ok) ==
    /\ ok \/ failures < MaxFailures
    /\ failures' = IF ok THEN failures ELSE failures + 1

\* One outbound send call by task e, after which it continues at pc: op is
\* the method called, dst the connections the payload reaches (none when
\* the call fails).
\* A failed send ending the handler.
SendOrAbort(e, op, dst, payload, ok, pc) ==
    tasks' = [tasks EXCEPT
        ![e].sent = Append(@, [op |-> op, payload |-> payload, ok |-> ok,
                               dst |-> IF ok THEN dst ELSE {}]),
        ![e].pc = IF ok THEN pc ELSE "done"]

Send(e, op, dst, payload, ok, pc) ==
    tasks' = [tasks EXCEPT
        ![e].sent = Append(@, [op |-> op, payload |-> payload, ok |-> ok,
                               dst |-> IF ok THEN dst ELSE {}]),
        ![e].pc = pc]

Goto(e, pc) == tasks' = [tasks EXCEPT ![e].pc = pc]

Init ==
    /\ names = << >>
    /\ lock = [readers |-> {}, writer |-> NoTask]
    /\ room = {}
    /\ db \in InitialHistories
    /\ conn = [c \in Conns |-> "new"]
    /\ tasks = << >>
    /\ failures = 0

\* ------------------------------------------------------ events (transport)
\* A client connects: the transport runs the on_open handler.  Handle ids
\* are handed out in the order the connections are accepted.
Open(c) ==
    /\ conn[c] = "new"
    /\ \A b \in Conns : b < c => conn[b] # "new"
    /\ CanStart
    /\ conn' = [conn EXCEPT ![c] = "open"]
    /\ tasks' = Append(tasks, NewTask(c, "open", <<>>, "o_join"))
    /\ UNCHANGED <<names, lock, room, db, failures>>

\* A text frame arrives: the transport runs the on_text handler.
TextEvent(c, t) ==
    /\ conn[c] = "open"
    /\ CanStart /\ NumEvents < MaxEvents
    /\ tasks' = Append(tasks, NewTask(c, "text", t, "t_rlock"))
    /\ UNCHANGED <<names, lock, room, db, conn, failures>>

\* A binary frame arrives: the transport runs the on_binary handler.
BinaryEvent(c, b) ==
    /\ conn[c] = "open"
    /\ CanStart /\ NumEvents < MaxEvents
    /\ tasks' = Append(tasks, NewTask(c, "binary", b, "b_rlock"))
    /\ UNCHANGED <<names, lock, room, db, conn, failures>>

\* The client disconnects: on_close is `async move {}`.
Close(c) ==
    /\ conn[c] = "open"
    /\ NumEvents < MaxEvents
    /\ conn' = [conn EXCEPT ![c] = "closed"]
    /\ UNCHANGED <<names, lock, room, db, tasks, failures>>

\* ---------------------------------------------------------------- on_open
\* The join error logged and the handler carrying on.
AfterJoinNoReturn(ok) == "o_get"

\* if let Err(e) = handle.join(room).await { eprintln!(..); return; }
AfterJoin(ok) == IF ok THEN "o_get" ELSE "done"

\* handle.join(room).await, with the early return on Err.
OpenJoin(e, ok) ==
    /\ Outcome(ok)
    /\ tasks[e].pc = "o_join"
    /\ room' = IF ok THEN room \cup {tasks[e].conn} ELSE room
    /\ Goto(e, AfterJoin(ok))
    /\ UNCHANGED <<names, lock, db, conn>>

\* The query returning no rows.
GetMessagesNone(ok) == <<>>

\* The rows returned newest first.
GetMessagesNewestFirst(ok) ==
    IF ok THEN [i \in 1..Len(db) |-> db[Len(db) + 1 - i]] ELSE <<>>

\* get_messages(): all rows of the table, or a DatabaseError.
GetMessages(ok) == IF ok THEN db ELSE <<>>

\* let messages = get_messages().await.unwrap();
OpenGetMessages(e, ok) ==
    /\ Outcome(ok)
    /\ tasks[e].pc = "o_get"
    /\ tasks' = [tasks EXCEPT
          ![e].messages = GetMessages(ok),
          ![e].pc = Unwrap(ok, IF GetMessages(ok) = <<>> THEN "o_prompt"
                                   ELSE "o_replay")]
    /\ UNCHANGED <<names, lock, room, db, conn>>

\* One turn of `for message in messages`: send the next PastMessages
\* envelope.  The loop has sent one envelope per turn, so the turn number
\* is the number of sends made so far plus one.
OpenReplay(e, ok) ==
    /\ Outcome(ok)
    /\ tasks[e].pc = "o_replay"
    /\ LET i == Len(tasks[e].sent) + 1
           m == tasks[e].messages[i]
       IN Send(e, "send_text", {tasks[e].conn},
               ToJson(Message("PastMessages", FmtLine(m.sender, m.text))), ok,
               IF i = Len(tasks[e].messages) THEN "o_prompt" ELSE "o_replay")
    /\ UNCHANGED <<names, lock, room, db, conn>>

\* Ask for the user's name.
OpenPrompt(e, ok) ==
    /\ Outcome(ok)
    /\ tasks[e].pc = "o_prompt"
    /\ Send(e, "send_text", {tasks[e].conn},
            ToJson(Message("Welcome", NamePrompt)), ok, "done")
    /\ UNCHANGED <<names, lock, room, db, conn>>

\* ---------------------------------------------------------------- on_text
\* user_names.read().await: granted while no writer holds the lock.
ReadLock(e, from, to) ==
    /\ tasks[e].pc = from
    /\ lock.writer = NoTask
    /\ lock' = [lock EXCEPT !.readers = @ \cup {e}]
    /\ Goto(e, to)
    /\ UNCHANGED <<names, room, db, conn, failures>>

\* The read guard kept alive past its block.
ReadUnlockLate(e) == lock' = lock

\* The read guard goes out of scope.
ReadUnlock(e) == lock' = [lock EXCEPT !.readers = @ \ {e}]

TextReadLock(e) == ReadLock(e, "t_rlock", "t_check")

\* has_name is read under the lock; then the branch on it, the trim and
\* the is_empty test, none of which awaits.
TextCheck(e) ==
    /\ tasks[e].pc = "t_check"
    /\ LET has == HasName(tasks[e].conn)
           name == Trim(tasks[e].data)
       IN tasks' = [tasks EXCEPT
             ![e].has_name = has,
             ![e].name = IF has THEN <<>> ELSE name,
             ![e].pc = IF has THEN "t_rlock2"
                       ELSE IF IsEmpty(name) THEN "t_reprompt" ELSE "t_wlock"]
    /\ ReadUnlock(e)
    /\ UNCHANGED <<names, room, db, conn, failures>>

\* The name is empty: ask again and return.
TextReprompt(e, ok) ==
    /\ Outcome(ok)
    /\ tasks[e].pc = "t_reprompt"
    /\ Send(e, "send_text", {tasks[e].conn},
            ToJson(Message("System", EmptyNamePrompt)), ok, "done")
    /\ UNCHANGED <<names, lock, room, db, conn>>

\* user_names.write().await: granted while nobody holds the lock.
TextWriteLock(e) ==
    /\ tasks[e].pc = "t_wlock"
    /\ lock.writer = NoTask /\ lock.readers = {}
    /\ lock' = [lock EXCEPT !.writer = e]
    /\ Goto(e, "t_insert")
    /\ UNCHANGED <<names, room, db, conn, failures>>

\* Store the name; the write guard goes out of scope.
TextInsert(e) ==
    /\ tasks[e].pc = "t_insert"
    /\ names' = InsertName(tasks[e].conn, tasks[e].name)
    /\ lock' = [lock EXCEPT !.writer = NoTask]
    /\ Goto(e, "t_welcome")
    /\ UNCHANGED <<room, db, conn, failures>>

\* Send welcome message.
TextWelcome(e, ok) ==
    /\ Outcome(ok)
    /\ tasks[e].pc = "t_welcome"
    /\ Send(e, "send_text", {tasks[e].conn},
            ToJson(Message("Welcome", FmtWelcome(tasks[e].name))), ok, "t_announce")
    /\ UNCHANGED <<names, lock, room, db, conn>>

\* Announce to others.
TextAnnounce(e, ok) ==
    /\ Outcome(ok)
    /\ tasks[e].pc = "t_announce"
    /\ Send(e, "to.text", TextRecipients(tasks[e].conn),
            RawText(FmtJoined(tasks[e].name)), ok, "done")
    /\ UNCHANGED <<names, lock, room, db, conn>>

TextReadLock2(e) == ReadLock(e, "t_rlock2", "t_getname")

\* Regular chat message: look the name up, falling back to the user id.
TextGetName(e) ==
    /\ tasks[e].pc = "t_getname"
    /\ tasks' = [tasks EXCEPT ![e].name = LookupName(tasks[e].conn),
                              ![e].pc = "t_save"]
    /\ ReadUnlock(e)
    /\ UNCHANGED <<names, room, db, conn, failures>>

\* The new row put in front of the others.
SaveMessagePrepend(text, sender, ok) ==
    IF ok THEN <<[text |-> text, sender |-> sender]>> \o db ELSE db

\* The two columns filled the wrong way round.
SaveMessageSwapped(text, sender, ok) ==
    IF ok THEN Append(db, [text |-> sender, sender |-> text]) ELSE db

\* save_message(text, sender): one more row, or a DatabaseError.
SaveMessage(text, sender, ok) ==
    IF ok THEN Append(db, [text |-> text, sender |-> sender]) ELSE db

\* save_message(&event.data, &name).await.unwrap();
TextSave(e, ok) ==
    /\ Outcome(ok)
    /\ tasks[e].pc = "t_save"
    /\ db' = SaveMessage(tasks[e].data, tasks[e].name, ok)
    /\ Goto(e, Unwrap(ok, "t_bcast"))
    /\ UNCHANGED <<names, lock, room, conn>>

\* Send to others with their name.
TextBroadcast(e, ok) ==
    /\ Outcome(ok)
    /\ tasks[e].pc = "t_bcast"
    /\ Send(e, "to.text", TextRecipients(tasks[e].conn),
            ToJson(Message("Chat", FmtLine(tasks[e].name, tasks[e].data))), ok, "t_echo")
    /\ UNCHANGED <<names, lock, room, db, conn>>

\* Echo back to sender with "Me:".
TextEcho(e, ok) ==
    /\ Outcome(ok)
    /\ tasks[e].pc = "t_echo"
    /\ Send(e, "send_text", {tasks[e].conn},
            ToJson(Message("Chat", FmtEcho(tasks[e].data))), ok, "done")
    /\ UNCHANGED <<names, lock, room, db, conn>>

\* -------------------------------------------------------------- on_binary
BinaryReadLock(e) == ReadLock(e, "b_rlock", "b_getname")

BinaryGetName(e) ==
    /\ tasks[e].pc = "b_getname"
    /\ tasks' = [tasks EXCEPT ![e].name = LookupName(tasks[e].conn),
                              ![e].pc = "b_emit"]
    /\ ReadUnlock(e)
    /\ UNCHANGED <<names, room, db, conn, failures>>

\* Broadcast binary data with user identification.
BinaryEmit(e, ok) ==
    /\ Outcome(ok)
    /\ tasks[e].pc = "b_emit"
    /\ Send(e, "to.emit_text", EmitTextRecipients(tasks[e].conn),
            RawText(FmtBinary(tasks[e].name, tasks[e].data)), ok, "done")
    /\ UNCHANGED <<names, lock, room, db, conn>>

Next ==
    \/ \E c \in Conns : Open(c)
    \/ \E c \in Conns, t \in Texts : TextEvent(c, t)
    \/ \E c \in Conns, b \in Payloads : BinaryEvent(c, b)
    \/ \E c \in Conns : Close(c)
    \/ \E e \in DOMAIN tasks, ok \in BOOLEAN : OpenJoin(e, ok)
    \/ \E e \in DOMAIN tasks, ok \in BOOLEAN : OpenGetMessages(e, ok)
    \/ \E e \in DOMAIN tasks, ok \in BOOLEAN : OpenReplay(e, ok)
    \/ \E e \in DOMAIN tasks, ok \in BOOLEAN : OpenPrompt(e, ok)
    \/ \E e \in DOMAIN tasks : TextReadLock(e)
    \/ \E e \in DOMAIN tasks : TextCheck(e)
    \/ \E e \in DOMAIN tasks, ok \in BOOLEAN : TextReprompt(e, ok)
    \/ \E e \in DOMAIN tasks : TextWriteLock(e)
    \/ \E e \in DOMAIN tasks : TextInsert(e)
    \/ \E e \in DOMAIN tasks, ok \in BOOLEAN : TextWelcome(e, ok)
    \/ \E e \in DOMAIN tasks, ok \in BOOLEAN : TextAnnounce(e, ok)
    \/ \E e \in DOMAIN tasks : TextReadLock2(e)
    \/ \E e \in DOMAIN tasks : TextGetName(e)
    \/ \E e \in DOMAIN tasks, ok \in BOOLEAN : TextSave(e, ok)
    \/ \E e \in DOMAIN tasks, ok \in BOOLEAN : TextBroadcast(e, ok)
    \/ \E e \in DOMAIN tasks, ok \in BOOLEAN : TextEcho(e, ok)
    \/ \E e \in DOMAIN tasks : BinaryReadLock(e)
    \/ \E e \in DOMAIN tasks : BinaryGetName(e)
    \/ \E e \in DOMAIN tasks, ok \in BOOLEAN : BinaryEmit(e, ok)

Spec == Init /\ [][Next]_vars

\* =================================================================== claims
\* Vocabulary shared by the properties below.
Handlers == DOMAIN tasks
ConnOf(e) == tasks[e].conn
IsDone(e) == tasks[e].pc = "done"

\* The handler took the name-registration branch and has stored its name.
Onboarded(e) ==
    /\ tasks[e].kind = "text"
    /\ ~tasks[e].has_name
    /\ tasks[e].pc \in {"t_welcome", "t_announce", "done"}
    /\ tasks[e].name # <<>>

\* The handler took the empty-name branch.
Reprompting(e) ==
    /\ tasks[e].kind = "text"
    /\ ~tasks[e].has_name
    /\ tasks[e].pc \in {"t_reprompt", "done"}
    /\ tasks[e].name = <<>>

\* The handler took the chat branch.
Chatting(e) == tasks[e].kind = "text" /\ tasks[e].has_name

\* The sends of handler e that carry payload p.
SendsWith(e, p) == {i \in DOMAIN tasks[e].sent : tasks[e].sent[i].payload = p}

\* The sends of handler e that reached connection c.
DeliveredTo(e, c) == {i \in DOMAIN tasks[e].sent : c \in tasks[e].sent[i].dst}

\* The wire forms the specification names, written out literally.
Envelope(type, data) == [format |-> "json", message_type |-> type, data |-> data]
Plain(data) == [format |-> "text", message_type |-> "", data |-> data]

\* Task e moves from pc `from` to pc `to` in this step.
Steps(e, from, to) ==
    /\ e \in DOMAIN tasks
    /\ tasks[e].pc = from
    /\ tasks'[e].pc = to

\* ----------------------------------------------------------------------- C1
\* C1: over a connection's lifetime onboarding happens at most once, in
\* every interleaving of its handlers: at most one text handler registers a
\* name for it, at most one "Welcome, {name}! ..." envelope is sent to it
\* and at most one "{name} joined the chat!" announcement is broadcast.
C1_OnboardedOnce ==
    \A c \in Conns :
        /\ Cardinality({e \in Handlers : ConnOf(e) = c /\ Onboarded(e)}) <= 1
        /\ Cardinality({e \in Handlers :
               /\ ConnOf(e) = c /\ tasks[e].kind = "text"
               /\ \E i \in DOMAIN tasks[e].sent :
                     /\ tasks[e].sent[i].payload.message_type = "Welcome"
                     /\ tasks[e].sent[i].payload.data # NamePrompt}) <= 1
        /\ Cardinality({e \in Handlers :
               /\ ConnOf(e) = c /\ tasks[e].kind = "text"
               /\ \E i \in DOMAIN tasks[e].sent :
                     tasks[e].sent[i].payload.format = "text"}) <= 1

\* ----------------------------------------------------------------------- C2
\* The text handler e has saved its chat message.
Persisted(e) == Chatting(e) /\ tasks[e].pc \in {"t_bcast", "t_echo", "done"}

\* Some text handler registered name n for connection c.
RegisteredFor(c, n) ==
    \E r \in Handlers : ConnOf(r) = c /\ Onboarded(r) /\ tasks[r].name = n

C2_ChatSends ==
    \A e \in Handlers : Persisted(e) =>
        LET c == ConnOf(e)
            n == tasks[e].name
            t == tasks[e].data
            s == tasks[e].sent
        IN /\ RegisteredFor(c, n)
           /\ Len(s) = CASE tasks[e].pc = "t_bcast" -> 0
                         [] tasks[e].pc = "t_echo" -> 1
                         [] OTHER -> 2
           /\ Len(s) >= 1 =>
                 /\ s[1].op = "to.text"
                 /\ s[1].payload = Envelope("Chat", Str(n) \o ": " \o Str(t))
                 /\ c \notin s[1].dst
           /\ Len(s) >= 2 =>
                 /\ s[2].op = "send_text"
                 /\ s[2].payload = Envelope("Chat", "Me: " \o Str(t))
                 /\ s[2].dst = IF s[2].ok THEN {c} ELSE {}

C2_BroadcastStep ==
    \A e \in Handlers : Steps(e, "t_bcast", "t_echo") =>
        LET x == tasks'[e].sent[1]
        IN x.dst = IF x.ok THEN room \ {ConnOf(e)} ELSE {}

\* C2: a chat text t of a connection named n, once saved, is sent as
\* exactly two sends: the Chat envelope "n: t" to every member of the room
\* but the sender, then the Chat envelope "Me: t" to the sender alone.
C2_ChatTwoDeliveries == []C2_ChatSends /\ [][C2_BroadcastStep]_vars

\* A finished chat whose broadcast reached another member and whose echo
\* reached the sender.
C2_Witness ==
    \E e \in Handlers :
        /\ Persisted(e) /\ IsDone(e)
        /\ tasks[e].sent[1].ok /\ tasks[e].sent[1].dst # {}
        /\ tasks[e].sent[2].ok

\* ----------------------------------------------------------------------- C3
\* C3: a binary frame of N bytes from connection c, named n, is announced
\* as the text "n sent binary data (N bytes)" to the other members of the
\* room, and nothing at all is delivered to c itself.
C3_BinaryNotToSender ==
    \A e \in Handlers : tasks[e].kind = "binary" =>
        \A i \in DOMAIN tasks[e].sent :
            LET x == tasks[e].sent[i]
            IN /\ x.payload = Plain(Str(tasks[e].name) \o " sent binary data ("
                                    \o ToString(Len(tasks[e].data)) \o " bytes)")
               /\ ConnOf(e) \notin x.dst

\* ----------------------------------------------------------------------- C4
\* Every character of t is whitespace (t may be empty).
Blank(t) == \A i \in DOMAIN t : t[i] \in Whitespace

C4_RepromptSends ==
    \A e \in Handlers : Reprompting(e) =>
        LET s == tasks[e].sent
        IN /\ Blank(tasks[e].data)
           /\ Len(s) = IF IsDone(e) THEN 1 ELSE 0
           /\ Len(s) = 1 =>
                 /\ s[1].op = "send_text"
                 /\ s[1].payload =
                       Envelope("System", "Name cannot be empty. Please enter your name:")
                 /\ s[1].dst = IF s[1].ok THEN {ConnOf(e)} ELSE {}

C4_RepromptSteps ==
    \A e \in Handlers :
        /\ ( /\ tasks[e].pc = "t_check"
             /\ tasks'[e].pc # "t_check"
             /\ UserId(ConnOf(e)) \notin DOMAIN names
             /\ Blank(tasks[e].data) )
           => /\ tasks'[e].pc = "t_reprompt"
              /\ names' = names /\ db' = db
        /\ Steps(e, "t_reprompt", "done") => names' = names /\ db' = db

\* C4: a text whose trimmed content is empty, handled while the connection
\* has no registry entry, changes neither the registry nor the table, and
\* makes one send only: a System envelope to the sender, no broadcast.
C4_EmptyNameReprompt == []C4_RepromptSends /\ [][C4_RepromptSteps]_vars

\* A whitespace-only name was answered with the System envelope.
C4_Witness ==
    \E e \in Handlers :
        /\ Reprompting(e) /\ IsDone(e)
        /\ tasks[e].data = <<" ">>
        /\ tasks[e].sent[1].ok

\* ----------------------------------------------------------------------- C5
\* The open handler e has joined the room and fetched the history.
Replaying(e) ==
    /\ tasks[e].kind = "open"
    /\ ConnOf(e) \in room
    /\ tasks[e].pc \in {"o_replay", "o_prompt", "done"}

C5_ReplaySends ==
    \A e \in Handlers : Replaying(e) =>
        LET m == tasks[e].messages
            s == tasks[e].sent
        IN /\ Len(m) <= Len(db) /\ SubSeq(db, 1, Len(m)) = m
           /\ CASE tasks[e].pc = "o_replay" -> Len(s) < Len(m)
                [] tasks[e].pc = "o_prompt" -> Len(s) = Len(m)
                [] OTHER -> Len(s) = Len(m) + 1
           /\ \A i \in DOMAIN s :
                 /\ s[i].op = "send_text"
                 /\ s[i].dst = IF s[i].ok THEN {ConnOf(e)} ELSE {}
                 /\ s[i].payload =
                       IF i <= Len(m)
                       THEN Envelope("PastMessages",
                                     Str(m[i].sender) \o ": " \o Str(m[i].text))
                       ELSE Envelope("Welcome", "Welcome! Please enter your name:")

C5_FetchStep ==
    \A e \in Handlers :
        (tasks[e].pc = "o_get" /\ tasks'[e].pc \in {"o_replay", "o_prompt"})
            => tasks'[e].messages = db

\* C5: the open handler, once in the room, sends one PastMessages envelope
\* "{sender}: {text}" per row the table held when it was read, in the
\* table's insertion order, and sends the name prompt only after the last
\* of them.
C5_ReplayThenPrompt == []C5_ReplaySends /\ [][C5_FetchStep]_vars

\* A replay of two rows, all of it delivered, followed by the prompt.
C5_Witness ==
    \E e \in Handlers :
        /\ Replaying(e) /\ IsDone(e)
        /\ Len(tasks[e].messages) >= 2
        /\ \A i \in DOMAIN tasks[e].sent : tasks[e].sent[i].ok

\* ----------------------------------------------------------------------- C6
\* n is t without its leading and trailing whitespace, and is not empty.
TrimmedOf(n, t) ==
    /\ n # <<>>
    /\ n[1] \notin Whitespace /\ n[Len(n)] \notin Whitespace
    /\ \E k \in 0..(Len(t) - Len(n)) :
          /\ SubSeq(t, k + 1, k + Len(n)) = n
          /\ \A i \in DOMAIN t : (i <= k \/ i > k + Len(n)) => t[i] \in Whitespace

C6_OnboardSends ==
    \A e \in Handlers : Onboarded(e) =>
        LET c == ConnOf(e)
            n == tasks[e].name
            s == tasks[e].sent
        IN /\ TrimmedOf(n, tasks[e].data)
           /\ UserId(c) \in DOMAIN names
           /\ Len(s) = CASE tasks[e].pc = "t_welcome" -> 0
                         [] tasks[e].pc = "t_announce" -> 1
                         [] OTHER -> 2
           /\ Len(s) >= 1 =>
                 /\ s[1].op = "send_text"
                 /\ s[1].payload =
                       Envelope("Welcome", "Welcome, " \o Str(n)
                                           \o "! You can start chatting now.")
                 /\ s[1].dst = IF s[1].ok THEN {c} ELSE {}
           /\ Len(s) >= 2 =>
                 /\ s[2].op = "to.text"
                 /\ s[2].payload = Plain(Str(n) \o " joined the chat!")
                 /\ c \notin s[2].dst

C6_OnboardSteps ==
    \A e \in Handlers :
        LET c == ConnOf(e)
        IN /\ ( /\ tasks[e].pc = "t_check"
                /\ tasks'[e].pc # "t_check"
                /\ UserId(c) \notin DOMAIN names
                /\ ~Blank(tasks[e].data) )
              => tasks'[e].pc = "t_wlock"
           /\ Steps(e, "t_insert", "t_welcome") =>
                 /\ DOMAIN names' = DOMAIN names \cup {UserId(c)}
                 /\ names'[UserId(c)] = tasks[e].name
                 /\ \A k \in DOMAIN names \ {UserId(c)} : names'[k] = names[k]
           /\ Steps(e, "t_announce", "done") =>
                 LET x == tasks'[e].sent[2]
                 IN x.dst = IF x.ok THEN room \ {c} ELSE {}

\* C6: a text with non-empty trimmed content n, handled while the
\* connection has no registry entry, stores n under the connection's id,
\* sends the Welcome envelope "Welcome, n! You can start chatting now." to
\* the connection, and sends the plain text "n joined the chat!" to every
\* member of the room but the connection itself.
C6_NameRegistration == []C6_OnboardSends /\ [][C6_OnboardSteps]_vars

\* A padded name was registered, welcomed, and announced to another member.
C6_Witness ==
    \E e \in Handlers :
        /\ Onboarded(e) /\ IsDone(e)
        /\ tasks[e].data = <<" ", "b", " ">>
        /\ names[UserId(ConnOf(e))] = <<"b">>
        /\ tasks[e].sent[1].ok
        /\ tasks[e].sent[2].ok /\ tasks[e].sent[2].dst # {}

\* ----------------------------------------------------------------------- C7
\* The table holds a row with this text and sender.
Stored(text, sender) ==
    \E i \in DOMAIN db : db[i] = [text |-> text, sender |-> sender]

C7_SavedBeforeSent ==
    \A e \in Handlers : tasks[e].kind = "text" =>
        /\ tasks[e].pc = "panicked" => tasks[e].sent = <<>>
        /\ ( \/ tasks[e].pc \in {"t_bcast", "t_echo"}
             \/ \E i \in DOMAIN tasks[e].sent :
                   tasks[e].sent[i].payload.message_type = "Chat" )
           => Stored(tasks[e].data, tasks[e].name)

C7_SaveStep ==
    \A e \in Handlers :
        (tasks[e].pc = "t_save" /\ tasks'[e].pc # "t_save") =>
            \/ /\ tasks'[e].pc = "t_bcast"
               /\ db' = Append(db, [text |-> tasks[e].data,
                                    sender |-> tasks[e].name])
            \/ /\ tasks'[e].pc = "panicked"
               /\ db' = db

\* C7: a chat message is sent on, to the room or back as "Me:", only after
\* its row was appended to the table; when the append fails the handler
\* sends nothing, to the sender or to anyone else.
C7_PersistBeforeBroadcast == []C7_SavedBeforeSent /\ [][C7_SaveStep]_vars

\* The append of a chat message failed and its handler stopped.
C7_Witness ==
    \E e \in Handlers :
        /\ Chatting(e)
        /\ tasks[e].pc = "panicked"
        /\ ~Stored(tasks[e].data, tasks[e].name)

\* ----------------------------------------------------------------------- C8
C8_NamesWellFormed ==
    \A k \in DOMAIN names :
        /\ names[k] # <<>>
        /\ names[k][1] \notin Whitespace
        /\ names[k][Len(names[k])] \notin Whitespace

C8_EntriesKept ==
    \A k \in DOMAIN names : k \in DOMAIN names' /\ names'[k] = names[k]

\* C8: a registry entry, once created, is never removed and never changed,
\* whatever events follow, and every stored name is non-empty and has no
\* leading or trailing whitespace.
C8_RegistryStable == []C8_NamesWellFormed /\ [][C8_EntriesKept]_vars

\* ----------------------------------------------------------------------- C9
C9_BinarySends ==
    \A e \in Handlers : tasks[e].kind = "binary" =>
        LET s == tasks[e].sent
        IN /\ Len(s) = IF IsDone(e) THEN 1 ELSE 0
           /\ tasks[e].pc # "panicked"
           /\ Len(s) = 1 =>
                 /\ s[1].op = "to.emit_text"
                 /\ s[1].payload =
                       Plain(Str(tasks[e].name) \o " sent binary data ("
                             \o ToString(Len(tasks[e].data)) \o " bytes)")

C9_BinarySteps ==
    \A e \in Handlers :
        LET c == ConnOf(e)
        IN /\ (tasks[e].kind = "binary" /\ tasks'[e] # tasks[e]) => names' = names
           /\ Steps(e, "b_getname", "b_emit") =>
                 tasks'[e].name = IF UserId(c) \in DOMAIN names
                                  THEN names[UserId(c)]
                                  ELSE << ToString(c) >>

\* C9: a binary frame is handled alike for a named and an unnamed sender:
\* it never changes the registry, its only send is the plain notification,
\* never a prompt, and with no registry entry the notification carries the
\* connection id where the name would be.
C9_BinaryUngated == []C9_BinarySends /\ [][C9_BinarySteps]_vars

\* An unnamed connection's two-byte frame was announced under its id.
C9_Witness ==
    \E e \in Handlers :
        /\ tasks[e].kind = "binary" /\ IsDone(e)
        /\ UserId(ConnOf(e)) \notin DOMAIN names
        /\ tasks[e].sent[1].ok
        /\ tasks[e].sent[1].payload = Plain("1 sent binary data (2 bytes)")

\* ---------------------------------------------------------------------- C10
C10_ChatOnly ==
    \A e \in Handlers : Chatting(e) =>
        LET n == tasks[e].name
            t == tasks[e].data
            s == tasks[e].sent
        IN /\ tasks[e].pc \in
                 {"t_rlock2", "t_getname", "t_save", "t_bcast", "t_echo",
                  "done", "panicked"}
           /\ Len(s) <= 2
           /\ Len(s) >= 1 => s[1].payload = Envelope("Chat", Str(n) \o ": " \o Str(t))
           /\ Len(s) >= 2 => s[2].payload = Envelope("Chat", "Me: " \o Str(t))
           /\ IsDone(e) => Len(s) = 2 /\ Stored(t, n)

C10_RoutedAsChat ==
    \A e \in Handlers :
        ( /\ tasks[e].pc = "t_check"
          /\ tasks'[e].pc # "t_check"
          /\ UserId(ConnOf(e)) \in DOMAIN names )
        => tasks'[e].has_name /\ tasks'[e].pc = "t_rlock2"

\* C10: a text handled once its connection has a registry entry is always
\* routed as chat, empty and whitespace-only texts included: the text is
\* stored as received, sent on as "{name}: {text}" and echoed as
\* "Me: {text}", and no System, Welcome or join message is sent for it.
C10_NamedTextIsChat == []C10_ChatOnly /\ [][C10_RoutedAsChat]_vars

\* A named connection's whitespace-only text went through as chat.
C10_Witness ==
    \E e \in Handlers :
        /\ Chatting(e) /\ IsDone(e)
        /\ tasks[e].data = <<" ">>
        /\ Stored(<<" ">>, tasks[e].name)
        /\ tasks[e].sent[2].ok

\* ---------------------------------------------------------------------- C11
\* The open handler e is past its join call and the join failed.
JoinFailed(e) ==
    /\ tasks[e].kind = "open"
    /\ tasks[e].pc # "o_join"
    /\ ConnOf(e) \notin room

C11_AbortedOpen ==
    \A e \in Handlers : JoinFailed(e) =>
        /\ IsDone(e)
        /\ tasks[e].messages = <<>>
        /\ tasks[e].sent = <<>>

C11_NoRetry ==
    \A e \in Handlers :
        /\ (tasks[e].pc = "o_join" /\ tasks'[e].pc = "done") =>
              /\ room' = room
              /\ tasks'[e].sent = <<>>
        /\ (tasks[e].kind = "open" /\ IsDone(e)) =>
              /\ tasks'[e] = tasks[e]
              /\ (ConnOf(e) \notin room => ConnOf(e) \notin room')

\* C11: when the join of room "main" fails, the open handler returns at
\* once: it fetches no history, sends no PastMessages envelope and no name
\* prompt, and never tries the join again.
C11_JoinFailureAborts == []C11_AbortedOpen /\ [][C11_NoRetry]_vars

\* A connection's join failed while the table held rows to replay.
C11_Witness ==
    \E e \in Handlers : JoinFailed(e) /\ IsDone(e) /\ db # <<>>

\* ---------------------------------------------------------------------- C12
\* The row a chat handler saves for its message.
RowOf(e) == [text |-> tasks[e].data, sender |-> tasks[e].name]

\* The rows of a fetch that equal row r.
Occurrences(m, r) == {i \in DOMAIN m : m[i] = r}

C12_ListedAfterSave ==
    \A e \in Handlers :
        (tasks[e].pc = "o_get" /\ tasks'[e].pc \in {"o_replay", "o_prompt"}) =>
            \A p \in Handlers : Persisted(p) =>
                Occurrences(tasks'[e].messages, RowOf(p)) # {}

C12_ReplayedAsSaved ==
    \A e \in Handlers : (Replaying(e) /\ IsDone(e)) =>
        \A p \in Handlers :
            \A i \in Occurrences(tasks[e].messages, RowOf(p)) :
                tasks[e].sent[i].payload =
                    Envelope("PastMessages",
                             Str(tasks[p].name) \o ": " \o Str(tasks[p].data))

\* C12: a chat message (text t, sender n) whose append succeeded is among
\* the rows of every later fetch, with the same sender and the same text,
\* and a connection that opens afterwards is sent the PastMessages envelope
\* "n: t" for it.
C12_StoreRoundTrip == []C12_ReplayedAsSaved /\ [][C12_ListedAfterSave]_vars

\* A padded chat text was saved and then replayed to a connection that
\* opened later.
C12_Witness ==
    \E e, p \in Handlers :
        /\ Replaying(e) /\ IsDone(e)
        /\ Persisted(p) /\ p < e
        /\ tasks[p].data = <<" ", "b", " ">>
        /\ \E i \in Occurrences(tasks[e].messages, RowOf(p)) :
              /\ tasks[e].sent[i].ok
              /\ tasks[e].sent[i].payload.data = "a:  b "

\* ---------------------------------------------------------------------- C13
C13_OneEntryPerConnection ==
    /\ DOMAIN names \subseteq {UserId(c) : c \in Conns}
    /\ \A e \in Handlers : Onboarded(e) => UserId(ConnOf(e)) \in DOMAIN names

C13_InsertStep ==
    \A e \in Handlers : Steps(e, "t_insert", "t_welcome") =>
        LET id == UserId(ConnOf(e))
        IN /\ id \in DOMAIN names'
           /\ names'[id] = tasks[e].name
           /\ \A k \in DOMAIN names :
                 k # id => (k \in DOMAIN names' /\ names'[k] = names[k])

\* C13: names need not be unique: registering n works whether or not other
\* connections hold n already, the entry is stored under the registering
\* connection's own id, and no other connection's entry is overwritten or
\* removed.
C13_SharedNames == []C13_OneEntryPerConnection /\ [][C13_InsertStep]_vars

\* Two connections hold the same name, each under its own id.
C13_Witness ==
    /\ DOMAIN names = {UserId(1), UserId(2)}
    /\ names[UserId(1)] = <<"a">>
    /\ names[UserId(2)] = <<"a">>

\* ---------------------------------------------------------------------- C14
\* Where a handler stands after a send made at pc, n being the number of
\* sends it has then made and m the number of rows it fetched.
AfterSend(pc, n, m) ==
    CASE pc = "o_replay"   -> IF n = m THEN "o_prompt" ELSE "o_replay"
      [] pc = "o_prompt"   -> "done"
      [] pc = "t_reprompt" -> "done"
      [] pc = "t_welcome"  -> "t_announce"
      [] pc = "t_announce" -> "done"
      [] pc = "t_bcast"    -> "t_echo"
      [] pc = "t_echo"     -> "done"
      [] pc = "b_emit"     -> "done"
      [] OTHER             -> "none"

C14_SendStep ==
    \A e \in Handlers : tasks'[e].sent # tasks[e].sent =>
        /\ Len(tasks'[e].sent) = Len(tasks[e].sent) + 1
        /\ SubSeq(tasks'[e].sent, 1, Len(tasks[e].sent)) = tasks[e].sent
        /\ tasks'[e].pc = AfterSend(tasks[e].pc, Len(tasks'[e].sent),
                                    Len(tasks[e].messages))
        /\ names' = names
        /\ db' = db

C14_AllSendsMade ==
    \A e \in Handlers : IsDone(e) =>
        Len(tasks[e].sent) =
            CASE tasks[e].kind = "open" ->
                     IF ConnOf(e) \in room \/ tasks[e].sent # <<>>
                     THEN Len(tasks[e].messages) + 1 ELSE 0
              [] tasks[e].kind = "binary" -> 1
              [] Chatting(e) -> 2
              [] Onboarded(e) -> 2
              [] OTHER -> 1

\* C14: a failed outbound send is logged and nothing more: it is not tried
\* again and the handler goes on to the step that follows a successful send
\* (the rest of the replay and the prompt, the join announcement, the "Me:"
\* echo); the registry and the table are what they would be had it
\* succeeded.
C14_SendFailureIgnored == []C14_AllSendsMade /\ [][C14_SendStep]_vars

\* A failed Welcome followed by a join announcement that went out.
C14_Witness ==
    \E e \in Handlers :
        /\ Onboarded(e) /\ IsDone(e)
        /\ ~tasks[e].sent[1].ok
        /\ tasks[e].sent[2].ok
        /\ UserId(ConnOf(e)) \in DOMAIN names

\* ---------------------------------------------------------------------- C15
\* The handlers that hold the lock on the name map.
LockHolders == lock.readers \cup (IF lock.writer = NoTask THEN {} ELSE {lock.writer})

C15_LockScope ==
    /\ \A e \in lock.readers :
          /\ e \in Handlers
          /\ tasks[e].pc \in {"t_check", "t_getname", "b_getname"}
    /\ lock.writer # NoTask =>
          /\ lock.writer \in Handlers
          /\ tasks[lock.writer].pc = "t_insert"
          /\ lock.readers = {}

C15_NoLockAcrossIO ==
    \A e \in Handlers :
        (tasks'[e].sent # tasks[e].sent \/ (tasks[e].pc = "t_save" /\ tasks'[e].pc # "t_save")
            \/ (tasks[e].pc = "o_get" /\ tasks'[e].pc # "o_get")) =>
            /\ e \notin LockHolders
            /\ e \notin LockHolders'

\* C15: the lock on the name map is held for one read or one write of the
\* map and released before the handler goes on; no handler holds it while
\* it sends or while it reads or writes the message table.
C15_LockOnlyAroundMap == []C15_LockScope /\ [][C15_NoLockAcrossIO]_vars

\* One handler holds the lock while another, which looked its name up
\* under the lock before, is at its save or at a send.
C15_Witness ==
    \E e, p \in Handlers :
        /\ e \in LockHolders
        /\ tasks[p].pc \in {"t_save", "t_bcast", "b_emit", "t_welcome"}
        /\ p \notin LockHolders

\* ---------------------------------------------------------------------- C16
\* The handler ended in the panic of an unwrap on a DatabaseError.
Panicked(e) == tasks[e].pc = "panicked"

C16_NoSendAfterFailure ==
    \A e \in Handlers : Panicked(e) =>
        /\ tasks[e].sent = <<>>
        /\ tasks[e].kind = "open" => tasks[e].messages = <<>>

\* Handler e makes a database call in this step and the call fails.
DatabaseCallFails(e) ==
    /\ tasks[e].pc \in {"o_get", "t_save"}
    /\ tasks'[e] # tasks[e]
    /\ failures' # failures

C16_FailureStep ==
    \A e \in Handlers :
        /\ DatabaseCallFails(e) =>
              /\ tasks'[e].pc = "panicked"
              /\ tasks'[e].sent = <<>>
              /\ db' = db
        /\ Panicked(e) => tasks'[e] = tasks[e]

\* Once a handler has panicked no handler starts or moves.
C16_Halt == (\E e \in Handlers : Panicked(e)) => tasks' = tasks

\* C16 as stated: a failing fetch during open or a failing save during chat
\* is fatal for the handler and ends the process: the handler sends nothing
\* more, and after the failure no event of any connection is handled.
C16_ProcessTerminates == []C16_NoSendAfterFailure /\ [][C16_Halt]_vars

\* C16 as amended: a failing fetch during open or a failing save during
\* chat is fatal for the handler it happens in: that handler panics at the
\* call, sends nothing more and never resumes.
C16_HandlerTerminates == []C16_NoSendAfterFailure /\ [][C16_FailureStep]_vars

\* A save failed, and a connection opened after that chat text arrived was
\* still sent its prompt.
C16_Witness ==
    \E e, p \in Handlers :
        /\ Panicked(e) /\ tasks[e].kind = "text"
        /\ p > e
        /\ tasks[p].kind = "open" /\ IsDone(p)
        /\ tasks[p].sent # <<>>

\* ---------------------------------------------------------------------- C17
\* The number of chat handlers whose save succeeded.
NumPersisted == Cardinality({e \in Handlers : Persisted(e)})

C17_OneRowPerChat ==
    /\ Len(db) >= NumPersisted
    /\ SubSeq(db, 1, Len(db) - NumPersisted) \in InitialHistories
    /\ \A e \in Handlers : Persisted(e) =>
          \E i \in DOMAIN db : db[i] = [text |-> tasks[e].data, sender |-> tasks[e].name]

C17_GrowStep ==
    /\ Len(db') >= Len(db)
    /\ SubSeq(db', 1, Len(db)) = db
    /\ db' # db =>
          \E e \in Handlers :
              /\ Chatting(e)
              /\ Steps(e, "t_save", "t_bcast")
              /\ db' = db \o <<[text |-> tasks[e].data, sender |-> tasks[e].name]>>
              /\ \A o \in Handlers \ {e} : tasks'[o] = tasks[o]
    /\ \A e \in Handlers :
          (tasks[e].pc = "t_save" /\ tasks'[e].pc # "t_save") =>
              Len(db') = Len(db) + (IF tasks'[e].pc = "t_bcast" THEN 1 ELSE 0)

\* C17: the table only grows, and only through chat: each chat text of a
\* named connection makes one save, which adds one row at the end whether
\* or not the broadcast after it succeeds; open, close, binary frames,
\* empty names and the text that registers a name add nothing; no row is
\* changed, moved or deleted, so the table at any time is a prefix of the
\* table at any later time.
C17_AppendOnly == []C17_OneRowPerChat /\ [][C17_GrowStep]_vars

\* A chat row was added behind the rows already stored although the
\* broadcast that followed failed.
C17_Witness ==
    \E e \in Handlers :
        /\ Persisted(e) /\ IsDone(e)
        /\ ~tasks[e].sent[1].ok
        /\ Len(db) = 3
        /\ db[3] = [text |-> tasks[e].data, sender |-> <<"a">>]

\* ---------------------------------------------------------------------- C18
\* The open handler joined the room and is through its replay, and every
\* send it made went out.
ReplayComplete(e) ==
    /\ tasks[e].kind = "open"
    /\ tasks[e].pc \in {"o_prompt", "done"}
    /\ ConnOf(e) \in room
    /\ \A i \in DOMAIN tasks[e].sent : tasks[e].sent[i].ok

\* The chat handler saved its message and its broadcast went out.
Broadcast(p) ==
    /\ Persisted(p)
    /\ tasks[p].pc \in {"t_echo", "done"}
    /\ tasks[p].sent[1].ok

\* The open handler replayed the message of chat handler p.
ReplayedTo(e, p) ==
    \E i \in DOMAIN tasks[e].sent :
        /\ tasks[e].sent[i].ok
        /\ tasks[e].sent[i].payload =
               Envelope("PastMessages",
                        Str(tasks[p].name) \o ": " \o Str(tasks[p].data))

\* C18: a connection C that joined the room and finished its replay is
\* sent every chat message of another connection whose save succeeded at
\* least once, in the replay or by the live broadcast, provided the sends
\* to C succeed: C joins before it fetches and the message is saved before
\* it is broadcast.
C18_NewcomerMissesNothing ==
    \A e, p \in Handlers :
        (ReplayComplete(e) /\ Broadcast(p) /\ ConnOf(p) # ConnOf(e)) =>
            \/ ConnOf(e) \in tasks[p].sent[1].dst
            \/ ReplayedTo(e, p)

\* The newcomer was not yet in the room at the broadcast and got the
\* message from the replay.
C18_Witness ==
    \E e, p \in Handlers :
        /\ ReplayComplete(e) /\ Broadcast(p) /\ ConnOf(p) # ConnOf(e)
        /\ ConnOf(e) \notin tasks[p].sent[1].dst
        /\ ReplayedTo(e, p)

\* The newcomer fetched before the save and got the message live.
C18_WitnessLive ==
    \E e, p \in Handlers :
        /\ ReplayComplete(e) /\ Broadcast(p) /\ ConnOf(p) # ConnOf(e)
        /\ ConnOf(e) \in tasks[p].sent[1].dst
        /\ ~ReplayedTo(e, p)

\* ---------------------------------------------------------------------- C19
\* The chat handler has looked its name up.
NameLookedUp(e) ==
    /\ Chatting(e)
    /\ tasks[e].pc \in {"t_save", "t_bcast", "t_echo", "done", "panicked"}

C19_SenderIsRegistered ==
    \A e \in Handlers : NameLookedUp(e) =>
        /\ tasks[e].name # UserId(ConnOf(e))
        /\ RegisteredFor(ConnOf(e), tasks[e].name)
        /\ tasks[e].sent # <<>> =>
              \E r \in Handlers :
                  /\ ConnOf(r) = ConnOf(e) /\ Onboarded(r)
                  /\ tasks[e].sent[1].payload =
                         Envelope("Chat", Str(tasks[r].name) \o ": " \o Str(tasks[e].data))

C19_LookupStep ==
    \A e \in Handlers :
        /\ Steps(e, "t_getname", "t_save") =>
              /\ UserId(ConnOf(e)) \in DOMAIN names
              /\ tasks'[e].name = names[UserId(ConnOf(e))]
        /\ Steps(e, "t_save", "t_bcast") =>
              /\ db'[Len(db')].sender # UserId(ConnOf(e))
              /\ RegisteredFor(ConnOf(e), db'[Len(db')].sender)
        /\ \A k \in DOMAIN names : k \in DOMAIN names'

\* C19: every row saved and every Chat envelope "{name}: {text}" broadcast
\* by the text path carries the name registered for the sending connection,
\* never its raw id: the chat branch is entered only after the map was seen
\* to hold the connection's entry, and entries are never removed, so the
\* fallback to the id is never taken.
C19_NeverRawId == []C19_SenderIsRegistered /\ [][C19_LookupStep]_vars

\* A chat message went out and was stored under the registered name.
C19_Witness ==
    \E e \in Handlers :
        /\ NameLookedUp(e) /\ IsDone(e)
        /\ tasks[e].name = <<"b">>
        /\ names[UserId(ConnOf(e))] = <<"b">>
        /\ tasks[e].sent[1].ok
        /\ db[Len(db)].sender = <<"b">>

\* ---------------------------------------------------------------------- C20
\* The connection's open handler returned on a failed join.
Outsider(c) == \E o \in Handlers : ConnOf(o) = c /\ JoinFailed(o) /\ IsDone(o)

\* C20: a connection whose join of room "main" failed takes no further
\* part: it never has an entry in the name map, and no text or binary
\* frame from it adds a row to the table or is delivered to a member of
\* the room.
C20_OutsiderTakesNoPart ==
    \A c \in Conns : Outsider(c) =>
        /\ UserId(c) \notin DOMAIN names
        /\ \A e \in Handlers : (ConnOf(e) = c /\ tasks[e].kind # "open") =>
              /\ ~Persisted(e)
              /\ \A i \in DOMAIN tasks[e].sent : tasks[e].sent[i].dst \cap room = {}
====
